---- MODULE Spec2Model ----
(***************************************************************************)
(* The session lifecycle and the admission control of the chat-relay bot   *)
(* (src/bot.py): MetaAIManager (one shared AI session behind an            *)
(* asyncio.Lock), DiscordMessageHandler (one task per admitted message),   *)
(* the inactivity watchdog, the owner's restart command and the rate       *)
(* limiter of MetaDiscordBot.on_message. Spec is the whole bot, SpecAdmit  *)
(* the rate limiter alone, SpecDrain the bot with stream consumers that    *)
(* iterate to exhaustion, SpecRelay one relayed request with its chunks,   *)
(* throttle and edits, SpecText the contents of the edits and SpecCensor   *)
(* the censorship of the prompt.                                           *)
(*                                                                         *)
(* One action is one run of a task between two suspension points of the   *)
(* asyncio event loop: everything a coroutine does between two awaits that *)
(* really suspend is atomic, because the loop is single-threaded.          *)
(***************************************************************************)
EXTENDS Integers, Sequences, FiniteSets, TLC

(* ---------------- BotConfig (src/bot.py:38-48) ---------------- *)
AI_INACTIVITY_THRESHOLD == 900
AI_MAX_ERRORS == 3
AI_MAX_SORRY_RESPONSES == 3
REQUEST_LIMIT_PER_MINUTE == 8
RATE_LIMIT_COOLDOWN_SECONDS == 15
WINDOW_SECONDS == 60

(* ---------------- bounds of the model ---------------- *)
NumHandlers == 2
MaxErrorCount == 3
MaxSorryCount == 4
MaxNow == 901
MaxMessages == 11

(* ---------------- tasks ---------------- *)
Handlers == {<<"h", i>> : i \in 1..NumHandlers}
Setup == <<"setup", 0>>
Wd == <<"wd", 0>>
Cmd == <<"cmd", 0>>
Tasks == Handlers \cup {Setup, Wd, Cmd}

VARIABLES
  ai_instance,          \* "absent" (None) | "unprimed" (created, line 101) | "live" (primed)
  locked,               \* asyncio.Lock._locked of MetaAIManager.lock
  waiters,              \* asyncio.Lock._waiters, FIFO of suspended tasks
  error_count,
  sorry_response_count,
  last_activity_time,
  now,                  \* the value time.time() returns
  pc,                   \* per task: the await it is suspended at
  site,                 \* per handler: the call site of its pending start_session call
  gen,                  \* per handler: the yield its stream generator is suspended at
  last_chunk,           \* per handler: "none" ({}), "ok", "sorry" (text holds AI_SORRY_PHRASE)
  success,              \* restart_ai_command's local `success`
  sorry_restarts,       \* times _handle_sorry_limit_restart was entered since
                        \* sorry_response_count was last 0
  error_peak,           \* the largest error_count since the last successful start_session
  request_timestamps,
  cooldown_until,
  verdict,              \* what on_message did with the last message
  msgs,                 \* messages on_message has handled
  recent_admits,        \* the arrival times, not older than 60 s, of the messages
                        \* that passed the cooldown and the limit test
  relay_pc,             \* the relayed request: the await process_response is at
  relay_now,            \* the value time.time() returns to the relay, in ms
  backend,              \* what the backend does for the relayed request
  fetched,              \* chunks of backend.chunks the stream has yielded
  last_edit_time,       \* process_response's local, in ms
  edited_content,       \* process_response's local
  relay_last_chunk,     \* process_response's local last_chunk
  edits,                \* the edits of bot_message the request has emitted
  health_before,        \* <<error_count, sorry_response_count>> when the request began
  text_in,              \* a str the handler is given: a chunk's message, an error text
  text_sources,         \* the links of the chunk's sources
  text_call,            \* the call text_out is the content of
  text_out,             \* the content handed to bot_message.edit, or _truncate's result
  censorship_txt,       \* the contents of the file censorship.txt
  curses,               \* custom_prompt.curses, "unread" before the module is loaded
  message_prompt,       \* the prompt on_message made the handler with
  prompt,               \* the handler's self.prompt
  censor_pc             \* "load", "censor", "done"

sessVars == <<ai_instance, locked, waiters, error_count, sorry_response_count,
              last_activity_time>>
taskVars == <<pc, site, gen, last_chunk, success>>
admitVars == <<request_timestamps, cooldown_until, verdict, msgs, recent_admits>>
histVars == <<sorry_restarts, error_peak>>
relayVars == <<relay_pc, relay_now, backend, fetched, last_edit_time,
               edited_content, relay_last_chunk, edits, health_before>>
textVars == <<text_in, text_sources, text_call, text_out>>
censorVars == <<censorship_txt, curses, message_prompt, prompt, censor_pc>>
auxVars == <<relayVars, textVars, censorVars>>
vars == <<sessVars, taskVars, histVars, admitVars, auxVars, now>>

Max(a, b) == IF a >= b THEN a ELSE b

(* ---------------- asyncio.Lock ---------------- *)
\* Mutant of CanAcquire: an acquire that does not look at the holder.
CanAcquireIgnoringHolder == waiters = <<>>

\* Lock.acquire takes the lock without suspending only when it is free and
\* nobody is queued; otherwise the caller is appended to the FIFO.
CanAcquire == ~locked /\ waiters = <<>>

\* A queued task is resumed when it is first in the FIFO and the lock was released.
CanResume(t) == ~locked /\ waiters # <<>> /\ Head(waiters) = t

(* ---------------- MetaAIManager.start_session ---------------- *)
\* Lines 88-102: take the lock (or queue for it), discard the handle, start creation.
EnterStartSession(t) ==
  IF CanAcquire
    THEN /\ locked' = TRUE
         /\ waiters' = waiters
         /\ ai_instance' = "absent"
         /\ pc' = [pc EXCEPT ![t] = "ss_create"]
    ELSE /\ waiters' = Append(waiters, t)
         /\ UNCHANGED <<locked, ai_instance>>
         /\ pc' = [pc EXCEPT ![t] = "ss_wait"]

\* The caller's continuation after start_session returned val and left the
\* `async with self.lock` block (line 91), up to the caller's next suspension.
ReturnToCaller(t, val) ==
  IF t \in Handlers /\ site[t] = "inline"
    THEN /\ success' = success
         /\ IF val
              THEN \* get_response_stream line 148: take the lock again for the stream
                   IF waiters = <<>>
                     THEN /\ locked' = TRUE
                          /\ waiters' = waiters
                          /\ pc' = [pc EXCEPT ![t] = "fetch"]
                          /\ site' = [site EXCEPT ![t] = "none"]
                          /\ gen' = gen
                     ELSE /\ locked' = FALSE
                          /\ waiters' = Append(waiters, t)
                          /\ pc' = [pc EXCEPT ![t] = "gs_wait"]
                          /\ UNCHANGED <<site, gen>>
              ELSE \* lines 138-140: one error chunk; process_response 312-313
                   /\ locked' = FALSE
                   /\ site' = [site EXCEPT ![t] = "none"]
                   /\ waiters' = waiters
                   /\ gen' = [gen EXCEPT ![t] = "y139"]
                   /\ pc' = [pc EXCEPT ![t] = "err_edit"]
    ELSE /\ locked' = FALSE
         /\ UNCHANGED <<waiters, gen>>
         /\ site' = IF t \in Handlers THEN [site EXCEPT ![t] = "none"] ELSE site
         /\ IF t = Cmd
              THEN /\ success' = val
                   /\ pc' = [pc EXCEPT ![t] = "cmd_unreact"]
              ELSE /\ success' = success
                   /\ pc' = [pc EXCEPT ![t] = IF t = Setup THEN "done" ELSE "idle"]

\* Mutant of StartSessionFailed: line 123 left out, the handle stays as it was.
StartSessionFailedKeepingHandle(t) ==
  /\ ai_instance' = ai_instance
  /\ ReturnToCaller(t, FALSE)
  /\ UNCHANGED <<error_count, sorry_response_count, last_activity_time, histVars>>

\* Lines 120-124: the except branch.
StartSessionFailed(t) ==
  /\ ai_instance' = "absent"
  /\ ReturnToCaller(t, FALSE)
  /\ UNCHANGED <<error_count, sorry_response_count, last_activity_time, histVars>>

\* The health counters after a successful priming, lines 116-117.
ResetHealth ==
  /\ error_count' = 0
  /\ sorry_response_count' = 0

\* Lines 115-119: the priming stream was drained.
StartSessionSucceeded(t) ==
  /\ ai_instance' = "live"
  /\ ResetHealth
  /\ last_activity_time' = now
  /\ sorry_restarts' = 0
  /\ error_peak' = 0
  /\ ReturnToCaller(t, TRUE)

\* A task queued on the lock inside start_session gets it (line 91) and goes on
\* to lines 92-102.
StartSessionResume(t) ==
  /\ pc[t] = "ss_wait"
  /\ CanResume(t)
  /\ locked' = TRUE
  /\ waiters' = Tail(waiters)
  /\ ai_instance' = "absent"
  /\ pc' = [pc EXCEPT ![t] = "ss_create"]
  /\ UNCHANGED <<error_count, sorry_response_count, last_activity_time, site, gen,
                 last_chunk, success, histVars, admitVars, auxVars, now>>

\* create_gama_instance returned an instance and the priming prompt was
\* submitted (101-113), or one of them raised (120-124).
StartSessionCreated(t) ==
  /\ pc[t] = "ss_create"
  /\ \E ok \in BOOLEAN :
       IF ok
         THEN /\ ai_instance' = "unprimed"
              /\ pc' = [pc EXCEPT ![t] = "ss_prime"]
              /\ UNCHANGED <<locked, waiters, error_count, sorry_response_count,
                             last_activity_time, site, gen, success, histVars>>
         ELSE StartSessionFailed(t)
  /\ UNCHANGED <<last_chunk, admitVars, auxVars, now>>

\* The priming stream was drained (113-119) or raised (120-124).
StartSessionPrimed(t) ==
  /\ pc[t] = "ss_prime"
  /\ \E ok \in BOOLEAN :
       IF ok THEN StartSessionSucceeded(t) ELSE StartSessionFailed(t)
  /\ UNCHANGED <<last_chunk, admitVars, auxVars, now>>

(* ---------------- MetaDiscordBot.setup_hook ---------------- *)
SetupHook ==
  /\ pc[Setup] = "init"
  /\ EnterStartSession(Setup)
  /\ UNCHANGED <<error_count, sorry_response_count, last_activity_time, site, gen,
                 last_chunk, success, histVars, admitVars, auxVars, now>>

\* The gateway connection, the watchdog and the commands start after setup_hook.
Started == pc[Setup] = "done"

(* ---------------- MetaAIManager.get_response_stream ---------------- *)
\* Lines 149-153 with the lock held: submitting the prompt through an absent
\* handle raises (None has no prompt), which the except branch 165-169 turns
\* into one error chunk; otherwise the first chunk is being fetched.
SubmitPrompt(h) ==
  IF ai_instance = "absent"
    THEN /\ error_count < MaxErrorCount
         /\ error_count' = error_count + 1
         /\ error_peak' = Max(error_peak, error_count')
         /\ gen' = [gen EXCEPT ![h] = "y169"]
         /\ pc' = [pc EXCEPT ![h] = "err_edit"]
    ELSE /\ pc' = [pc EXCEPT ![h] = "fetch"]
         /\ UNCHANGED <<error_count, error_peak, gen>>

\* Line 148: take the lock for the stream, or queue for it.
StreamEnter(h) ==
  IF CanAcquire
    THEN /\ locked' = TRUE
         /\ waiters' = waiters
         /\ SubmitPrompt(h)
    ELSE /\ waiters' = Append(waiters, h)
         /\ pc' = [pc EXCEPT ![h] = "gs_wait"]
         /\ UNCHANGED <<locked, error_count, error_peak, gen>>

\* The unlocked test of line 136.
HandleMissing == ai_instance = "absent"

(* ---------------- DiscordMessageHandler.process_response ---------------- *)
\* on_message 408-414 creates the task; it runs to the send of line 301.
Spawn(h) ==
  /\ Started
  /\ pc[h] = "idle"
  /\ gen[h] = "none"
  /\ pc' = [pc EXCEPT ![h] = "send"]
  /\ UNCHANGED <<sessVars, site, gen, last_chunk, success, histVars,
                 admitVars, auxVars, now>>

\* The "Thinking..." message was sent (301-310), or the send raised (323-326
\* with bot_message still None).
SendDone(h) ==
  /\ pc[h] = "send"
  /\ \E ok \in BOOLEAN :
       pc' = [pc EXCEPT ![h] = IF ok THEN "typing" ELSE "idle"]
  /\ UNCHANGED <<sessVars, site, gen, last_chunk, success, histVars,
                 admitVars, auxVars, now>>

\* channel.typing() was entered: the first step of the generator runs, lines
\* 135-153. Or entering raised: lines 323-328.
TypingDone(h) ==
  /\ pc[h] = "typing"
  /\ \E ok \in BOOLEAN :
       IF ok
         THEN /\ last_activity_time' = now
              /\ IF HandleMissing
                   THEN /\ site' = [site EXCEPT ![h] = "inline"]
                        /\ EnterStartSession(h)
                        /\ UNCHANGED <<error_count, error_peak, gen>>
                   ELSE /\ StreamEnter(h)
                        /\ UNCHANGED <<site, ai_instance>>
         ELSE /\ pc' = [pc EXCEPT ![h] = "fallback_edit"]
              /\ UNCHANGED <<sessVars, site, gen, error_peak>>
  /\ UNCHANGED <<sorry_response_count, last_chunk, success, sorry_restarts,
                 admitVars, auxVars, now>>

\* A handler queued at line 148 gets the lock.
StreamResume(h) ==
  /\ pc[h] = "gs_wait"
  /\ CanResume(h)
  /\ locked' = TRUE
  /\ waiters' = Tail(waiters)
  /\ SubmitPrompt(h)
  /\ site' = [site EXCEPT ![h] = "none"]
  /\ UNCHANGED <<ai_instance, sorry_response_count, last_activity_time,
                 last_chunk, success, sorry_restarts, admitVars, auxVars, now>>

ChunkKinds == {"ok", "sorry"}

\* The backend returned a chunk (157-162); process_response 316-319 keeps it and
\* _update_streamed_message 221-231 either awaits a preview edit or, throttled,
\* asks for the next chunk at once. time.time() of line 224 is an input here.
StreamChunk(h) ==
  /\ pc[h] = "fetch"
  /\ \E kind \in ChunkKinds, edit \in BOOLEAN :
       /\ kind = "sorry" => sorry_response_count < MaxSorryCount
       /\ last_chunk' = [last_chunk EXCEPT ![h] = kind]
       /\ IF edit
            THEN /\ pc' = [pc EXCEPT ![h] = "preview_edit"]
                 /\ gen' = [gen EXCEPT ![h] = "y162"]
            ELSE UNCHANGED <<pc, gen>>
  /\ UNCHANGED <<sessVars, site, success, histVars, admitVars, auxVars, now>>

\* Mutant of ErrorCountAfterSuccess: line 164 left out.
ErrorCountKept == error_count

\* error_count once the stream is exhausted, line 164.
ErrorCountAfterSuccess == 0

\* Mutant of SorryCountAfterGood: a good response takes one off the streak.
SorryCountDecayed == IF sorry_response_count > 0 THEN sorry_response_count - 1 ELSE 0

\* sorry_response_count after a finalization that found no refusal phrase,
\* lines 250-252.
SorryCountAfterGood == 0

\* The backend iterator is exhausted (160-164): the lock is released, the
\* consumer leaves its loop and _finalize_message runs to its edit (239-260).
StreamEnd(h) ==
  /\ pc[h] = "fetch"
  /\ error_count' = ErrorCountAfterSuccess
  /\ locked' = FALSE
  /\ IF last_chunk[h] = "sorry"
       THEN /\ sorry_response_count' = sorry_response_count + 1
            /\ IF sorry_response_count' >= AI_MAX_SORRY_RESPONSES
                 THEN /\ sorry_restarts' = sorry_restarts + 1
                      /\ pc' = [pc EXCEPT ![h] = "notice_edit"]
                 ELSE /\ sorry_restarts' = sorry_restarts
                      /\ pc' = [pc EXCEPT ![h] = "final_edit"]
       ELSE /\ sorry_response_count' = SorryCountAfterGood
            /\ sorry_restarts' = 0
            /\ pc' = [pc EXCEPT ![h] = "final_edit"]
  /\ UNCHANGED <<ai_instance, waiters, last_activity_time, site, gen, last_chunk,
                 success, error_peak, admitVars, auxVars, now>>

\* The backend raised mid-stream (165-169): one error chunk is yielded with the
\* lock held and process_response 312-313 awaits the error edit.
StreamRaise(h) ==
  /\ pc[h] = "fetch"
  /\ error_count < MaxErrorCount
  /\ error_count' = error_count + 1
  /\ error_peak' = Max(error_peak, error_count')
  /\ gen' = [gen EXCEPT ![h] = "y169"]
  /\ pc' = [pc EXCEPT ![h] = "err_edit"]
  /\ last_chunk' = [last_chunk EXCEPT ![h] = "none"]
  /\ UNCHANGED <<ai_instance, locked, waiters, sorry_response_count,
                 last_activity_time, site, success, sorry_restarts, admitVars,
                 auxVars, now>>

\* The preview edit of line 228 returned, and the generator is resumed for the
\* next chunk; or it raised, and process_response 323-328 takes over.
PreviewDone(h) ==
  /\ pc[h] = "preview_edit"
  /\ \E ok \in BOOLEAN :
       IF ok
         THEN /\ gen' = [gen EXCEPT ![h] = "none"]
              /\ pc' = [pc EXCEPT ![h] = "fetch"]
              /\ last_chunk' = last_chunk
         ELSE /\ pc' = [pc EXCEPT ![h] = "fallback_edit"]
              /\ last_chunk' = [last_chunk EXCEPT ![h] = "none"]
              /\ gen' = gen
  /\ UNCHANGED <<sessVars, site, success, histVars, admitVars, auxVars, now>>

\* _handle_stream_error's edit (219) returned and process_response returns (314)
\* without resuming the generator; or it raised (323-328).
ErrEditDone(h) ==
  /\ pc[h] = "err_edit"
  /\ \E ok \in BOOLEAN :
       pc' = [pc EXCEPT ![h] = IF ok THEN "idle" ELSE "fallback_edit"]
  /\ UNCHANGED <<sessVars, site, gen, last_chunk, success, histVars,
                 admitVars, auxVars, now>>

\* The final edit of line 260 returned, or raised (323-328).
FinalDone(h) ==
  /\ pc[h] = "final_edit"
  /\ \E ok \in BOOLEAN :
       pc' = [pc EXCEPT ![h] = IF ok THEN "idle" ELSE "fallback_edit"]
  /\ last_chunk' = [last_chunk EXCEPT ![h] = "none"]
  /\ UNCHANGED <<sessVars, site, gen, success, histVars, admitVars, auxVars, now>>

\* _handle_sorry_limit_restart: the notice edit (236) returned and
\* restart_session is called (237); or the edit raised (323-328).
NoticeDone(h) ==
  /\ pc[h] = "notice_edit"
  /\ \E ok \in BOOLEAN :
       IF ok
         THEN /\ site' = [site EXCEPT ![h] = "sorry"]
              /\ EnterStartSession(h)
         ELSE /\ pc' = [pc EXCEPT ![h] = "fallback_edit"]
              /\ UNCHANGED <<site, locked, waiters, ai_instance>>
  /\ last_chunk' = [last_chunk EXCEPT ![h] = "none"]
  /\ UNCHANGED <<error_count, sorry_response_count, last_activity_time, gen,
                 success, histVars, admitVars, auxVars, now>>

\* The fallback edit of line 328 returned or raised (329-330); the task ends.
FallbackDone(h) ==
  /\ pc[h] = "fallback_edit"
  /\ pc' = [pc EXCEPT ![h] = "idle"]
  /\ UNCHANGED <<sessVars, site, gen, last_chunk, success, histVars,
                 admitVars, auxVars, now>>

\* The task ended with its generator suspended at a yield: the event loop's
\* asyncgen finalizer closes it. GeneratorExit is raised at the yield, is not
\* caught by `except Exception` (165), and leaves `async with self.lock` (148).
Aclose(h) ==
  /\ pc[h] = "idle"
  /\ gen[h] # "none"
  /\ locked' = IF gen[h] \in {"y162", "y169"} THEN FALSE ELSE locked
  /\ gen' = [gen EXCEPT ![h] = "none"]
  /\ UNCHANGED <<ai_instance, waiters, error_count, sorry_response_count,
                 last_activity_time, pc, site, last_chunk, success,
                 histVars, admitVars, auxVars, now>>

\* A consumer that iterates the stream to exhaustion asks for the next chunk
\* after an error chunk. The generator that yielded at 139 returns (140). The
\* one that yielded at 169 goes on to 170-172 inside `async with self.lock`:
\* below the limit it ends and the lock is released; at the limit it calls
\* restart_session, whose start_session asks for the lock (91).
DrainAfterError(h) ==
  /\ pc[h] = "err_edit"
  /\ gen[h] \in {"y139", "y169"}
  /\ IF gen[h] = "y169" /\ error_count >= AI_MAX_ERRORS
       THEN /\ site' = [site EXCEPT ![h] = "error"]
            /\ gen' = [gen EXCEPT ![h] = "a172"]
            /\ EnterStartSession(h)
       ELSE /\ locked' = IF gen[h] = "y169" THEN FALSE ELSE locked
            /\ gen' = [gen EXCEPT ![h] = "none"]
            /\ pc' = [pc EXCEPT ![h] = "idle"]
            /\ UNCHANGED <<ai_instance, waiters, site>>
  /\ UNCHANGED <<error_count, sorry_response_count, last_activity_time,
                 last_chunk, success, histVars, admitVars, auxVars, now>>

(* ---------------- MetaAIManager.check_inactivity ---------------- *)
\* Mutant of IsFree: the tick does not look at the lock.
IsFreeAlways == TRUE

IsInactive == (now - last_activity_time) > AI_INACTIVITY_THRESHOLD
IsFree == ~locked

\* One tick of the loop (175-183) that finds the session idle and the lock free.
CheckInactivity ==
  /\ Started
  /\ pc[Wd] = "idle"
  /\ IsInactive /\ IsFree
  /\ EnterStartSession(Wd)
  /\ UNCHANGED <<error_count, sorry_response_count, last_activity_time, site, gen,
                 last_chunk, success, histVars, admitVars, auxVars, now>>

(* ---------------- MetaDiscordBot.restart_ai_command ---------------- *)
\* add_reaction returned (420) and restart_session is called (421).
RestartCommand ==
  /\ Started
  /\ pc[Cmd] = "idle"
  /\ EnterStartSession(Cmd)
  /\ UNCHANGED <<error_count, sorry_response_count, last_activity_time, site, gen,
                 last_chunk, success, histVars, admitVars, auxVars, now>>

\* Lines 422-425: the reactions and the failure message; the command ends.
RestartCommandDone ==
  /\ pc[Cmd] = "cmd_unreact"
  /\ pc' = [pc EXCEPT ![Cmd] = "idle"]
  /\ success' = FALSE
  /\ UNCHANGED <<sessVars, site, gen, last_chunk, histVars, admitVars, auxVars, now>>

(* ---------------- the clock ---------------- *)
ClockSteps == {AI_INACTIVITY_THRESHOLD, AI_INACTIVITY_THRESHOLD + 1}

Tick ==
  /\ \E d \in ClockSteps : now + d <= MaxNow /\ now' = now + d
  /\ UNCHANGED <<sessVars, taskVars, histVars, admitVars, auxVars>>

(* ---------------- MetaDiscordBot.on_message ---------------- *)
\* Seconds between two message events: a burst, the 5 s of the renewed cooldown,
\* and a full window.
ArrivalGaps == {0, 5, WINDOW_SECONDS}

\* Lines 391-393: popleft while the oldest timestamp is older than the cutoff.
RECURSIVE PruneOld(_, _)
PruneOld(q, cutoff) ==
  IF q # <<>> /\ Head(q) < cutoff THEN PruneOld(Tail(q), cutoff) ELSE q

\* Line 381.
InCooldown(t) == t < cooldown_until

\* Mutant of CooldownAfterHit: a running cooldown is kept, not renewed.
CooldownNotRenewed(t) ==
  IF t < cooldown_until THEN cooldown_until ELSE t + RATE_LIMIT_COOLDOWN_SECONDS

\* Lines 382 and 398: the cooldown a rejection at time t sets.
CooldownAfterHit(t) == t + RATE_LIMIT_COOLDOWN_SECONDS

\* Mutant of AtLimit: the test lets the window reach the limit first.
AtLimitExceeded(q) == Len(q) > REQUEST_LIMIT_PER_MINUTE

\* Line 396.
AtLimit(q) == Len(q) >= REQUEST_LIMIT_PER_MINUTE

\* Mutant of WindowOnLimitHit: the timestamp is appended before the limit test.
WindowTrackedBeforeLimit(pruned, t) == Append(pruned, t)

\* Lines 396-404: a message rejected at the limit returns before the append of
\* line 406; the deque keeps what the pruning loop (392-393) left of it.
WindowOnLimitHit(pruned, t) == pruned

\* One message event, lines 371-414, arriving gap seconds after the previous
\* one. should is _should_process_message's answer (359-369), empty says that
\* the prompt is empty once the mention is stripped (408-411).
OnMessage ==
  /\ msgs < MaxMessages
  /\ \E gap \in ArrivalGaps, should \in BOOLEAN, empty \in BOOLEAN :
       LET t == now + gap
           pruned == PruneOld(request_timestamps, t - WINDOW_SECONDS)
       IN /\ now' = t
          /\ msgs' = msgs + 1
          /\ recent_admits' =
               SelectSeq(IF should /\ ~InCooldown(t) /\ ~AtLimit(pruned)
                           THEN Append(recent_admits, t) ELSE recent_admits,
                         LAMBDA x : x >= t - WINDOW_SECONDS)
          /\ IF ~should
               THEN /\ verdict' = "ignored"
                    /\ UNCHANGED <<request_timestamps, cooldown_until>>
               ELSE IF InCooldown(t)
                 THEN /\ cooldown_until' = CooldownAfterHit(t)
                      /\ verdict' = "cooldown"
                      /\ UNCHANGED request_timestamps
                 ELSE IF AtLimit(pruned)
                   THEN /\ request_timestamps' = WindowOnLimitHit(pruned, t)
                        /\ cooldown_until' = CooldownAfterHit(t)
                        /\ verdict' = "limit"
                   ELSE /\ request_timestamps' = Append(pruned, t)
                        /\ verdict' = IF empty THEN "empty" ELSE "admitted"
                        /\ UNCHANGED cooldown_until
  /\ UNCHANGED <<sessVars, taskVars, histVars, auxVars>>

(* ---------------- strings ---------------- *)
\* A str is the sequence of its characters.
DISCORD_MSG_CHAR_LIMIT == 1000

\* UPDATE_INTERVAL_SECONDS = 0.7, in ms.
UPDATE_INTERVAL_MS == 700

Ellipsis == <<".", ".", ".">>

\* BotConfig.AI_SORRY_PHRASE (its apostrophe written as ').
AI_SORRY_PHRASE ==
  <<"S","o","r","r","y",","," ","I"," ","c","a","n","'","t"," ","h","e","l",
    "p"," ","y","o","u">>

\* Line 255.
NoResponseText ==
  <<"<","N","o"," ","r","e","s","p","o","n","s","e"," ","r","e","c","e","i",
    "v","e","d",">">>

\* Line 236.
RestartNotice ==
  <<"I","'","m"," ","g","o","i","n","g"," ","t","o"," ","r","e","s","t","a",
    "r","t"," ","m","y","s","e","l","f"," ","r","e","a","l","l","y"," ","q",
    "u","i","c","k","."," ","G","i","v","e"," ","m","e"," ","1","0"," ","s",
    "e","c","o","n","d","s",".">>

\* Line 328.
BotErrorText ==
  <<"A"," ","b","o","t"," ","e","r","r","o","r"," ","o","c","c","u","r","r",
    "e","d","."," ","C","h","e","c","k"," ","l","o","g","s",".">>

\* Line 217.
ApiErrorPrefix ==
  <<"A","n"," ","A","P","I"," ","e","r","r","o","r"," ","o","c","c","u","r",
    "r","e","d",":"," ">>

\* Line 213.
SourcesHeader ==
  <<"\n","\n","*","*","S","o","u","r","c","e","s",":","*","*","\n">>

IsSpace(c) == c \in {" ", "\n", "\t"}

RECURSIVE LStrip(_)
LStrip(s) == IF s # <<>> /\ IsSpace(Head(s)) THEN LStrip(Tail(s)) ELSE s

RECURSIVE RStrip(_)
RStrip(s) ==
  IF s # <<>> /\ IsSpace(s[Len(s)]) THEN RStrip(SubSeq(s, 1, Len(s) - 1)) ELSE s

\* str.strip()
Strip(s) == RStrip(LStrip(s))

\* `sub in s`
Contains(s, sub) ==
  \E i \in 0..(Len(s) - Len(sub)) : SubSeq(s, i + 1, i + Len(sub)) = sub

\* Mutant of Truncate: the cut leaves room for the three dots only.
TruncateToLimit(content) ==
  IF Len(content) > DISCORD_MSG_CHAR_LIMIT
    THEN SubSeq(content, 1, DISCORD_MSG_CHAR_LIMIT - 3) \o Ellipsis
    ELSE content

\* _truncate, lines 202-206.
Truncate(content) ==
  IF Len(content) > DISCORD_MSG_CHAR_LIMIT
    THEN SubSeq(content, 1, DISCORD_MSG_CHAR_LIMIT - 4) \o Ellipsis
    ELSE content

\* enumerate(sources[:5], 1): the number of a source line.
Digit(i) == <<"1", "2", "3", "4", "5">>[i]

\* Line 212: f"{i}. <{link}>".
SourceLine(i, link) == <<Digit(i), ".", " ", "<">> \o link \o <<">">>

\* "\n".join of the first n source lines.
RECURSIVE JoinSourceLines(_, _)
JoinSourceLines(links, n) ==
  IF n = 0 THEN <<>>
  ELSE IF n = 1 THEN SourceLine(1, links[1])
  ELSE JoinSourceLines(links, n - 1) \o <<"\n">> \o SourceLine(n, links[n])

\* _format_sources, lines 208-213; a source is given by its link.
FormatSources(sources) ==
  IF sources = <<>> THEN <<>>
  ELSE SourcesHeader \o
       JoinSourceLines(sources, IF Len(sources) > 5 THEN 5 ELSE Len(sources))

(* ---------------- chunks ---------------- *)
\* A chunk is the dict the backend yields: its "message" and the links of its
\* "sources". empty tells the {} process_response starts from (line 308).
NoChunk == [empty |-> TRUE, message |-> <<>>, sources |-> <<>>]
Chunk(message, sources) == [empty |-> FALSE, message |-> message, sources |-> sources]

\* Line 227.
PreviewContent(chunk) == Truncate(chunk.message) \o Ellipsis

\* Lines 241-243.
IsRefusal(chunk) == Contains(Strip(chunk.message), AI_SORRY_PHRASE)

\* Mutant of FinalContent: the placeholder branch left out.
FinalContentNoPlaceholder(chunk) ==
  Truncate(Strip(chunk.message) \o FormatSources(chunk.sources))

\* Lines 241 and 254-258.
FinalContent(chunk) ==
  IF Strip(chunk.message) = <<>> /\ chunk.empty
    THEN NoResponseText
    ELSE Truncate(Strip(chunk.message) \o FormatSources(chunk.sources))

\* Lines 217-219.
ErrorContent(err) == Truncate(ApiErrorPrefix \o err)

(* ---------------- one relayed request ---------------- *)
\* process_response 301-330 for one request on a live session with nobody else
\* at the lock: the stream's chunks, the clock of the throttle and the edits.
MaxChunks == 3

Hi == <<"h", "i">>
RelayChunks ==
  { Chunk(Hi, <<<<"u">>>>),
    Chunk(Hi \o Ellipsis, <<>>),
    Chunk(AI_SORRY_PHRASE \o <<".">>, <<>>),
    Chunk(<<" ">>, <<>>) }

\* What the backend does for the request: the chunks its iterator returns,
\* whether it then is exhausted or raises, and whether a restart_session call
\* made for the request succeeds.
Backends ==
  [chunks : UNION {[1..n -> RelayChunks] : n \in 0..MaxChunks},
   ending : {"end", "raise"},
   restart : BOOLEAN]

\* str(e) of the exception the backend raises.
BackendError == <<"b", "o", "o", "m">>

\* Milliseconds between two reads of time.time() by the relay.
RelayGaps == {0, UPDATE_INTERVAL_MS, UPDATE_INTERVAL_MS + 1}

\* One bot_message.edit call: its content, the text it was built from and the
\* clock when the handler decided on it.
Edit(kind, content, text, t) ==
  [kind |-> kind, content |-> content, text |-> text, at |-> t]

\* Mutant of ShouldEdit: an edit is due as soon as the interval has passed.
ShouldEditAtInterval(t, content_buffer) ==
  t - last_edit_time >= UPDATE_INTERVAL_MS /\ content_buffer # edited_content

\* Line 226.
ShouldEdit(t, content_buffer) ==
  t - last_edit_time > UPDATE_INTERVAL_MS /\ content_buffer # edited_content

\* The "Thinking..." message was sent and the locals are set (301-308), or the
\* send raised: bot_message is None and the handler ends (323-326).
RelaySendDone ==
  /\ relay_pc = "send"
  /\ \E ok \in BOOLEAN :
       IF ok
         THEN /\ relay_pc' = "stream"
              /\ last_edit_time' = relay_now
              /\ edited_content' = <<>>
              /\ relay_last_chunk' = NoChunk
         ELSE /\ relay_pc' = "done"
              /\ UNCHANGED <<last_edit_time, edited_content, relay_last_chunk>>
  /\ UNCHANGED <<sessVars, taskVars, histVars, admitVars, textVars, censorVars,
                 now, relay_now, backend, fetched, edits, health_before>>

\* The stream yields the next chunk (157-162, 316): _update_streamed_message
\* (221-231) reads the clock and emits a preview edit or returns its arguments.
RelayChunk ==
  /\ relay_pc = "stream"
  /\ fetched < Len(backend.chunks)
  /\ \E gap \in RelayGaps :
       LET t == relay_now + gap
           chunk == backend.chunks[fetched + 1]
       IN /\ relay_now' = t
          /\ fetched' = fetched + 1
          /\ relay_last_chunk' = chunk
          /\ IF ShouldEdit(t, chunk.message)
               THEN /\ edits' = Append(edits, Edit("preview", PreviewContent(chunk),
                                                   chunk.message, t))
                    /\ relay_pc' = "preview_edit"
               ELSE UNCHANGED <<edits, relay_pc>>
  /\ UNCHANGED <<sessVars, taskVars, histVars, admitVars, textVars, censorVars,
                 now, backend, last_edit_time, edited_content, health_before>>

\* The preview edit returned and line 317 assigns the locals, or it raised and
\* lines 323-328 emit the fallback edit.
RelayPreviewDone ==
  /\ relay_pc = "preview_edit"
  /\ \E ok \in BOOLEAN :
       IF ok
         THEN /\ last_edit_time' = relay_now
              /\ edited_content' = relay_last_chunk.message
              /\ relay_pc' = "stream"
              /\ edits' = edits
         ELSE /\ edits' = Append(edits, Edit("fallback", BotErrorText, <<>>, relay_now))
              /\ relay_pc' = "fallback_edit"
              /\ UNCHANGED <<last_edit_time, edited_content>>
  /\ UNCHANGED <<sessVars, taskVars, histVars, admitVars, textVars, censorVars,
                 now, relay_now, backend, fetched, relay_last_chunk,
                 health_before>>

\* Mutant of FinalizeEdits: no final edit when the last chunk is on display.
FinalizeEditsUnlessShown(chunk, refusals, t) ==
  IF chunk.message = edited_content /\ ~chunk.empty
    THEN <<>>
    ELSE IF IsRefusal(chunk) /\ refusals + 1 >= AI_MAX_SORRY_RESPONSES
      THEN <<Edit("notice", RestartNotice, <<>>, t)>>
      ELSE <<Edit("final", FinalContent(chunk), chunk.message, t)>>

\* The edits _finalize_message emits (239-260) when sorry_response_count was
\* refusals before it: the restarting notice (248, 236) or the final content.
FinalizeEdits(chunk, refusals, t) ==
  IF IsRefusal(chunk) /\ refusals + 1 >= AI_MAX_SORRY_RESPONSES
    THEN <<Edit("notice", RestartNotice, <<>>, t)>>
    ELSE <<Edit("final", FinalContent(chunk), chunk.message, t)>>

\* The backend iterator is exhausted (160-164) and _finalize_message runs to its
\* edit (239-260).
RelayEnd ==
  /\ relay_pc = "stream"
  /\ fetched = Len(backend.chunks)
  /\ backend.ending = "end"
  /\ error_count' = ErrorCountAfterSuccess
  /\ sorry_response_count' =
       IF IsRefusal(relay_last_chunk) THEN sorry_response_count + 1
       ELSE SorryCountAfterGood
  /\ \E gap \in RelayGaps :
       /\ relay_now' = relay_now + gap
       /\ edits' = edits \o FinalizeEdits(relay_last_chunk, sorry_response_count,
                                          relay_now')
  /\ relay_pc' = IF IsRefusal(relay_last_chunk)
                    /\ sorry_response_count' >= AI_MAX_SORRY_RESPONSES
                   THEN "notice_edit" ELSE "final_edit"
  /\ UNCHANGED <<ai_instance, locked, waiters, last_activity_time, taskVars,
                 histVars, admitVars, textVars, censorVars, now, backend,
                 fetched, last_edit_time, edited_content, relay_last_chunk,
                 health_before>>

\* The backend raised (165-169): the error chunk goes to _handle_stream_error
\* (215-219, 312-313).
RelayRaise ==
  /\ relay_pc = "stream"
  /\ fetched = Len(backend.chunks)
  /\ backend.ending = "raise"
  /\ error_count' = error_count + 1
  /\ \E gap \in RelayGaps :
       /\ relay_now' = relay_now + gap
       /\ edits' = Append(edits, Edit("error", ErrorContent(BackendError),
                                      BackendError, relay_now'))
  /\ relay_pc' = "err_edit"
  /\ UNCHANGED <<ai_instance, locked, waiters, sorry_response_count,
                 last_activity_time, taskVars, histVars, admitVars, textVars,
                 censorVars, now, backend, fetched, last_edit_time,
                 edited_content, relay_last_chunk, health_before>>

\* The error edit (219) or the final edit (260) returned and the handler is
\* done, or it raised and lines 323-328 emit the fallback edit.
RelayLastEditDone ==
  /\ relay_pc \in {"err_edit", "final_edit"}
  /\ \E ok \in BOOLEAN :
       IF ok
         THEN /\ relay_pc' = "done"
              /\ edits' = edits
         ELSE /\ edits' = Append(edits, Edit("fallback", BotErrorText, <<>>, relay_now))
              /\ relay_pc' = "fallback_edit"
  /\ UNCHANGED <<sessVars, taskVars, histVars, admitVars, textVars, censorVars,
                 now, relay_now, backend, fetched, last_edit_time,
                 edited_content, relay_last_chunk, health_before>>

\* The notice edit (236) returned and restart_session runs (237, 88-124) with
\* nobody else at the lock; or the edit raised (323-328).
RelayNoticeDone ==
  /\ relay_pc = "notice_edit"
  /\ \E ok \in BOOLEAN :
       IF ok
         THEN /\ relay_pc' = "done"
              /\ edits' = edits
              /\ IF backend.restart
                   THEN ResetHealth
                   ELSE UNCHANGED <<error_count, sorry_response_count>>
         ELSE /\ edits' = Append(edits, Edit("fallback", BotErrorText, <<>>, relay_now))
              /\ relay_pc' = "fallback_edit"
              /\ UNCHANGED <<error_count, sorry_response_count>>
  /\ UNCHANGED <<ai_instance, locked, waiters, last_activity_time, taskVars,
                 histVars, admitVars, textVars, censorVars, now, relay_now,
                 backend, fetched, last_edit_time, edited_content,
                 relay_last_chunk, health_before>>

\* The fallback edit returned or raised (328-330); the handler is done.
RelayFallbackDone ==
  /\ relay_pc = "fallback_edit"
  /\ relay_pc' = "done"
  /\ UNCHANGED <<sessVars, taskVars, histVars, admitVars, textVars, censorVars,
                 now, relay_now, backend, fetched, last_edit_time,
                 edited_content, relay_last_chunk, edits, health_before>>

(* ---------------- the contents of the edits ---------------- *)
\* How far above DISCORD_MSG_CHAR_LIMIT the lengths of the strings go.
MaxOver == 5

TextLengths ==
  (0..2) \cup ((DISCORD_MSG_CHAR_LIMIT - 5)..(DISCORD_MSG_CHAR_LIMIT + MaxOver))

\* Strings of length n: one letter, two letters in turn, and a text between
\* two blanks.
Text(n, k) ==
  [i \in 1..n |->
     IF k = 1 THEN "a"
     ELSE IF k = 2 THEN (IF i % 2 = 0 THEN "a" ELSE "b")
     ELSE (IF i = 1 \/ i = n THEN " " ELSE "c")]

Texts == {Text(n, k) : n \in TextLengths, k \in 1..3}

\* The chunk's sources: none, one, and more than the five that are shown.
SourceLists ==
  {<<>>, <<<<"u">>>>, [i \in 1..6 |-> <<"u", Digit(IF i > 5 THEN 5 ELSE i)>>]}

\* The handler calls _truncate (205-206).
TextTruncate ==
  /\ text_call = "none"
  /\ text_call' = "truncate"
  /\ text_out' = Truncate(text_in)
  /\ UNCHANGED <<sessVars, taskVars, histVars, admitVars, relayVars, censorVars, now,
                 text_in, text_sources>>

\* The edit of a preview (227-228).
TextPreview ==
  /\ text_call = "none"
  /\ text_call' = "preview"
  /\ text_out' = PreviewContent(Chunk(text_in, text_sources))
  /\ UNCHANGED <<sessVars, taskVars, histVars, admitVars, relayVars, censorVars, now,
                 text_in, text_sources>>

\* The final edit (254-260).
TextFinal ==
  /\ text_call = "none"
  /\ text_call' = "final"
  /\ text_out' = FinalContent(Chunk(text_in, text_sources))
  /\ UNCHANGED <<sessVars, taskVars, histVars, admitVars, relayVars, censorVars, now,
                 text_in, text_sources>>

\* The edit of _handle_stream_error (217-219), text_in being the error's text.
TextError ==
  /\ text_call = "none"
  /\ text_call' = "error"
  /\ text_out' = ErrorContent(text_in)
  /\ UNCHANGED <<sessVars, taskVars, histVars, admitVars, relayVars, censorVars, now,
                 text_in, text_sources>>

\* The edits with a fixed content: the restarting notice (236) and the
\* fallback (328).
TextFixed ==
  /\ text_call = "none"
  /\ \E call \in {"notice", "fallback"} :
       /\ text_call' = call
       /\ text_out' = IF call = "notice" THEN RestartNotice ELSE BotErrorText
  /\ UNCHANGED <<sessVars, taskVars, histVars, admitVars, relayVars, censorVars, now,
                 text_in, text_sources>>

(* ---------------- the censorship of the prompt ---------------- *)
MaxPromptLen == 4

\* The characters of the prompts and of the word list.
LowerLetters == {"a", "b", "d"}
UpperLetters == {"A", "B", "D"}

\* str.isalpha() of one character.
IsAlpha(c) == c \in LowerLetters \cup UpperLetters

\* str.lower() of one character.
LowerChar(c) ==
  CASE c = "A" -> "a"
    [] c = "B" -> "b"
    [] c = "D" -> "d"
    [] OTHER -> c

\* str.lower()
Lower(w) == [i \in 1..Len(w) |-> LowerChar(w[i])]

\* The lines of a file without their line ends: the words of a word list that
\* has one word per line.
RECURSIVE SplitLines(_, _)
SplitLines(rest, line) ==
  IF rest = <<>> THEN (IF line = <<>> THEN <<>> ELSE <<line>>)
  ELSE IF Head(rest) = "\n" THEN <<line>> \o SplitLines(Tail(rest), <<>>)
  ELSE SplitLines(Tail(rest), Append(line, Head(rest)))

\* f.readlines() (custom_prompt.py 5-7): every line keeps its line end.
RECURSIVE ReadLines(_, _)
ReadLines(rest, line) ==
  IF rest = <<>> THEN (IF line = <<>> THEN <<>> ELSE <<line>>)
  ELSE IF Head(rest) = "\n"
    THEN <<Append(line, "\n")>> \o ReadLines(Tail(rest), <<>>)
    ELSE ReadLines(Tail(rest), Append(line, Head(rest)))

\* Lines 281-285 and 291-295.
MaskWord(current_word, curse_set) ==
  IF Lower(current_word) \in curse_set /\ Len(current_word) > 2
    THEN SubSeq(current_word, 1, 2) \o [i \in 1..(Len(current_word) - 2) |-> "-"]
    ELSE current_word

\* The loop of 274-287 over the characters that are left, then 290-297; parts
\* is "".join(new_prompt_parts) so far.
RECURSIVE ScanPrompt(_, _, _, _)
ScanPrompt(rest, current_word, parts, curse_set) ==
  IF rest = <<>>
    THEN IF current_word # <<>>
           THEN parts \o MaskWord(current_word, curse_set)
           ELSE parts
    ELSE IF IsAlpha(Head(rest))
      THEN ScanPrompt(Tail(rest), Append(current_word, Head(rest)), parts, curse_set)
      ELSE ScanPrompt(Tail(rest), <<>>,
                      (IF current_word # <<>>
                         THEN parts \o MaskWord(current_word, curse_set)
                         ELSE parts) \o <<Head(rest)>>,
                      curse_set)

\* Line 268.
CurseSet(lines) == {Lower(lines[i]) : i \in 1..Len(lines)}

\* The outer loop of line 266 makes one pass of 267-297 per line of the list.
RECURSIVE CensorPasses(_, _, _)
CensorPasses(p, lines, n) ==
  IF n = 0 THEN p
  ELSE CensorPasses(ScanPrompt(p, <<>>, <<>>, CurseSet(lines)), lines, n - 1)

\* The word-list files: one word per line, with and without a line end after
\* the last word, and the empty file.
Bad == <<"b", "a", "d">>
Ab == <<"a", "b">>
CensorFiles ==
  { <<>>,
    Bad \o <<"\n">>,
    Bad,
    Ab \o <<"\n">> \o Bad \o <<"\n">>,
    <<"B", "a", "D", "\n">> \o Ab }

PromptChars == {"a", "b", "d", "B", " ", "-"}
Prompts == UNION {[1..n -> PromptChars] : n \in 1..MaxPromptLen}

\* custom_prompt.py 5-7 runs when the module is imported.
LoadCurses ==
  /\ censor_pc = "load"
  /\ curses' = ReadLines(censorship_txt, <<>>)
  /\ censor_pc' = "censor"
  /\ UNCHANGED <<sessVars, taskVars, histVars, admitVars, relayVars, textVars,
                 now, censorship_txt, message_prompt, prompt>>

\* process_response 264-297.
CensorPrompt ==
  /\ censor_pc = "censor"
  /\ prompt' = CensorPasses(prompt, curses, Len(curses))
  /\ censor_pc' = "done"
  /\ UNCHANGED <<sessVars, taskVars, histVars, admitVars, relayVars, textVars,
                 now, censorship_txt, curses, message_prompt>>

(* ---------------- specifications ---------------- *)
\* No request is being relayed.
RelayIdle ==
  /\ relay_pc = "done"
  /\ relay_now = 0
  /\ backend = [chunks |-> <<>>, ending |-> "end", restart |-> FALSE]
  /\ fetched = 0
  /\ last_edit_time = 0
  /\ edited_content = <<>>
  /\ relay_last_chunk = NoChunk
  /\ edits = <<>>
  /\ health_before = <<0, 0>>

\* No content is being made.
TextIdle ==
  /\ text_in = <<>>
  /\ text_sources = <<>>
  /\ text_call = "none"
  /\ text_out = <<>>

\* No prompt is being censored.
CensorIdle ==
  /\ censorship_txt = <<>>
  /\ curses = <<>>
  /\ message_prompt = <<>>
  /\ prompt = <<>>
  /\ censor_pc = "done"

Init ==
  /\ ai_instance = "absent"
  /\ locked = FALSE
  /\ waiters = <<>>
  /\ error_count = 0
  /\ sorry_response_count = 0
  /\ last_activity_time = 0
  /\ now = 0
  /\ pc = [t \in Tasks |-> IF t = Setup THEN "init" ELSE "idle"]
  /\ site = [h \in Handlers |-> "none"]
  /\ gen = [h \in Handlers |-> "none"]
  /\ last_chunk = [h \in Handlers |-> "none"]
  /\ success = FALSE
  /\ sorry_restarts = 0
  /\ error_peak = 0
  /\ request_timestamps = <<>>
  /\ cooldown_until = 0
  /\ verdict = "none"
  /\ msgs = 0
  /\ recent_admits = <<>>
  /\ RelayIdle
  /\ TextIdle
  /\ CensorIdle

Next ==
  \/ SetupHook
  \/ \E t \in Tasks : StartSessionResume(t)
  \/ \E t \in Tasks : StartSessionCreated(t)
  \/ \E t \in Tasks : StartSessionPrimed(t)
  \/ \E h \in Handlers : Spawn(h)
  \/ \E h \in Handlers : SendDone(h)
  \/ \E h \in Handlers : TypingDone(h)
  \/ \E h \in Handlers : StreamResume(h)
  \/ \E h \in Handlers : StreamChunk(h)
  \/ \E h \in Handlers : StreamEnd(h)
  \/ \E h \in Handlers : StreamRaise(h)
  \/ \E h \in Handlers : PreviewDone(h)
  \/ \E h \in Handlers : ErrEditDone(h)
  \/ \E h \in Handlers : FinalDone(h)
  \/ \E h \in Handlers : NoticeDone(h)
  \/ \E h \in Handlers : FallbackDone(h)
  \/ \E h \in Handlers : Aclose(h)
  \/ CheckInactivity
  \/ RestartCommand
  \/ RestartCommandDone
  \/ Tick

Spec == Init /\ [][Next]_vars

\* The admission control alone: the message events in arrival order.
NextAdmit == OnMessage

SpecAdmit == Init /\ [][NextAdmit]_vars

\* The bot with consumers that may iterate a stream to exhaustion.
NextDrain ==
  \/ Next
  \/ \E h \in Handlers : DrainAfterError(h)

SpecDrain == Init /\ [][NextDrain]_vars

\* The counters a request can find: 0 and one below their limits.
RelayHealth ==
  {0, AI_MAX_ERRORS - 1} \X {0, AI_MAX_SORRY_RESPONSES - 1}

\* The session is live and idle and on_message has just created a handler's
\* task (413-414).
BotRunning ==
  /\ ai_instance = "live"
  /\ locked = FALSE
  /\ waiters = <<>>
  /\ last_activity_time = 0
  /\ now = 0
  /\ pc = [t \in Tasks |-> IF t = Setup THEN "done" ELSE "idle"]
  /\ site = [h \in Handlers |-> "none"]
  /\ gen = [h \in Handlers |-> "none"]
  /\ last_chunk = [h \in Handlers |-> "none"]
  /\ success = FALSE
  /\ sorry_restarts = 0
  /\ error_peak = 0
  /\ request_timestamps = <<0>>
  /\ cooldown_until = 0
  /\ verdict = "admitted"
  /\ msgs = 1
  /\ recent_admits = <<0>>

\* One request is relayed; the backend will do one of Backends.
InitRelay ==
  /\ BotRunning
  /\ \E h \in RelayHealth :
       /\ error_count = h[1]
       /\ sorry_response_count = h[2]
       /\ health_before = h
  /\ TextIdle
  /\ CensorIdle
  /\ relay_pc = "send"
  /\ relay_now = 0
  /\ backend \in Backends
  /\ fetched = 0
  /\ last_edit_time = 0
  /\ edited_content = <<>>
  /\ relay_last_chunk = NoChunk
  /\ edits = <<>>

NextRelay ==
  \/ RelaySendDone
  \/ RelayChunk
  \/ RelayPreviewDone
  \/ RelayEnd
  \/ RelayRaise
  \/ RelayLastEditDone
  \/ RelayNoticeDone
  \/ RelayFallbackDone

SpecRelay == InitRelay /\ [][NextRelay]_vars

\* The contents of the edits alone: a handler is given one of Texts with one
\* of SourceLists and makes one call with it.
InitText ==
  /\ BotRunning
  /\ error_count = 0
  /\ sorry_response_count = 0
  /\ RelayIdle
  /\ CensorIdle
  /\ text_in \in Texts
  /\ text_sources \in SourceLists
  /\ text_call = "none"
  /\ text_out = <<>>

NextText ==
  \/ TextTruncate
  \/ TextPreview
  \/ TextFinal
  \/ TextError
  \/ TextFixed

SpecText == InitText /\ [][NextText]_vars

\* The censorship alone: the bot starts with one of CensorFiles as its word
\* list and a handler is made with one of Prompts.
InitCensor ==
  /\ BotRunning
  /\ error_count = 0
  /\ sorry_response_count = 0
  /\ RelayIdle
  /\ TextIdle
  /\ censorship_txt \in CensorFiles
  /\ curses = <<>>
  /\ message_prompt \in Prompts
  /\ prompt = message_prompt
  /\ censor_pc = "load"

NextCensor ==
  \/ LoadCurses
  \/ CensorPrompt

SpecCensor == InitCensor /\ [][NextCensor]_vars

(***************************************************************************)
(* Properties                                                              *)
(***************************************************************************)
InStartSession(t) == pc[t] \in {"ss_create", "ss_prime"}
InStream(h) == pc[h] = "fetch" \/ gen[h] \in {"y162", "y169"}
InExchange(t) == InStartSession(t) \/ (t \in Handlers /\ InStream(t))
RestartPending(t) == pc[t] \in {"ss_wait", "ss_create", "ss_prime"}

\* C1: at most one task is inside a session exchange (a stream between taking
\* the lock for its prompt and the end or the closing of its stream, or a
\* start_session call between discarding the handle and the end of priming),
\* and while a stream is being relayed the handle is the live one its prompt
\* was submitted to: no restart has discarded or replaced it.
C1_MutualExclusion ==
  /\ Cardinality({t \in Tasks : InExchange(t)}) <= 1
  /\ \A h \in Handlers : pc[h] \in {"fetch", "preview_edit"} => ai_instance = "live"
  /\ (\E t \in Tasks : InExchange(t)) => locked

\* C1 witness: a stream is in flight while a restart is queued behind it.
C1_Witness ==
  \E h \in Handlers, t \in Tasks :
    pc[h] = "fetch" /\ pc[t] = "ss_wait" /\ t \in {Wd, Cmd}

\* C2: once error_count has reached AI_MAX_ERRORS, either the stream whose
\* failure brought it there is still open, or the automatic restart that
\* failure triggers (line 172) has been entered and is under way; a completed
\* restart has reset the count.
C2_AutoRestartAfterThreeFailures ==
  error_count >= AI_MAX_ERRORS =>
    \E h \in Handlers :
      gen[h] = "y169" \/ (site[h] = "error" /\ RestartPending(h))

\* C3: a streak of consecutive finalized refusals triggers exactly one
\* refusal restart, the one of the response that brings the streak to
\* AI_MAX_SORRY_RESPONSES, whatever other handlers finalize meanwhile.
C3_ExactlyOneRefusalRestart ==
  /\ sorry_response_count < AI_MAX_SORRY_RESPONSES => sorry_restarts = 0
  /\ sorry_response_count >= AI_MAX_SORRY_RESPONSES => sorry_restarts = 1

\* C4: the cooldown is tested before the window and every rejection renews it:
\* a message to process that arrives at t < cooldown_until is rejected and sets
\* cooldown_until to t + 15; one that arrives outside the cooldown when the
\* pruned window holds 8 timestamps is rejected and sets cooldown_until to
\* t + 15; every other message to process is admitted.
C4_CooldownFirstAndRenewing ==
  [][(msgs' = msgs + 1 /\ verdict' # "ignored") =>
       IF now' < cooldown_until
         THEN verdict' = "cooldown"
              /\ cooldown_until' = now' + RATE_LIMIT_COOLDOWN_SECONDS
         ELSE IF Len(SelectSeq(request_timestamps,
                               LAMBDA x : x >= now' - WINDOW_SECONDS))
                   >= REQUEST_LIMIT_PER_MINUTE
           THEN verdict' = "limit"
                /\ cooldown_until' = now' + RATE_LIMIT_COOLDOWN_SECONDS
           ELSE verdict' \in {"admitted", "empty"}
                /\ cooldown_until' = cooldown_until]_vars

\* C4 witness: 8 messages were admitted at one instant, and a later message,
\* 5 s after the rejection that started the cooldown, has been rejected by the
\* cooldown and has renewed it.
C4_Witness ==
  /\ verdict = "cooldown"
  /\ Len(request_timestamps) = REQUEST_LIMIT_PER_MINUTE
  /\ request_timestamps[REQUEST_LIMIT_PER_MINUTE] - request_timestamps[1] <= 1
  /\ now = request_timestamps[1] + 10
  /\ msgs = 10
  /\ cooldown_until = now + RATE_LIMIT_COOLDOWN_SECONDS

\* C5: the watchdog starts a restart only in a tick in which the session has
\* been idle for more than the threshold and the lock is not held, and while
\* its restart is between discarding the handle and the end of priming no
\* stream holds the lock.
C5_WatchdogOnlyWhenIdleAndFree ==
  [][/\ (pc[Wd] = "idle" /\ pc'[Wd] # "idle") =>
          (now - last_activity_time > AI_INACTIVITY_THRESHOLD /\ ~locked)
     /\ InStartSession(Wd)' => \A h \in Handlers : ~InStream(h)']_vars

\* C5 witness: the watchdog's restart has discarded the handle and is creating
\* the new one while a request is queued for the lock.
C5_Witness ==
  /\ pc[Wd] = "ss_create"
  /\ \E h \in Handlers : pc[h] = "gs_wait"

\* C6: get_response_stream never reads the handle (line 136) while a
\* start_session call is between discarding the old handle and finishing or
\* failing priming.
C6_NoReadDuringRestart ==
  [][\A h \in Handlers :
       (pc[h] = "typing" /\ pc'[h] \notin {"typing", "fallback_edit"}) =>
         \A t \in Tasks : ~InStartSession(t)]_vars

\* C7: a start_session call makes one creation and one priming attempt and
\* never goes back to either; when it returns the lock has been released, and
\* it returns True with the handle live and both counters 0, or False with the
\* handle absent.
ReturnsFromStartSession(t) == InStartSession(t) /\ ~InStartSession(t)'
ReturnedTrue(t) ==
  /\ t = Cmd => success'
  /\ (t \in Handlers /\ site[t] = "inline") => pc'[t] \in {"fetch", "gs_wait"}
ReturnedFalse(t) ==
  /\ t = Cmd => ~success'
  /\ (t \in Handlers /\ site[t] = "inline") => (pc'[t] = "err_edit" /\ gen'[t] = "y139")
C7_StartSessionOutcomes ==
  [][\A t \in Tasks :
       /\ pc[t] = "ss_create" => pc'[t] # "ss_wait"
       /\ pc[t] = "ss_prime" => pc'[t] \notin {"ss_wait", "ss_create"}
       /\ ReturnsFromStartSession(t) =>
            /\ ~locked' \/ pc'[t] = "fetch"
            /\ \/ /\ ai_instance' = "live"
                  /\ error_count' = 0
                  /\ sorry_response_count' = 0
                  /\ ReturnedTrue(t)
               \/ /\ ai_instance' = "absent"
                  /\ ReturnedFalse(t)
                  /\ error_count' = error_count
                  /\ sorry_response_count' = sorry_response_count]_vars

\* C7 witness: the owner's restart returned False (creation or priming raised)
\* and left the handle absent with the lock free.
C7_Witness ==
  pc[Cmd] = "cmd_unreact" /\ ~success /\ ai_instance = "absent" /\ ~locked

\* C8: a get_response_stream call that found the handle absent makes one
\* inline restart; if that fails the stream is one error chunk and no prompt
\* is submitted; if it succeeds the call goes on to submit its prompt to a
\* live session.
C8_InlineRestartThenSubmit ==
  [][\A h \in Handlers :
       (site[h] = "inline" /\ pc'[h] # pc[h]) =>
         /\ pc[h] = "ss_wait" => pc'[h] = "ss_create"
         /\ pc[h] = "ss_create" => pc'[h] \in {"ss_prime", "err_edit"}
         /\ pc[h] = "ss_prime" => pc'[h] \in {"fetch", "gs_wait", "err_edit"}
         /\ (InStartSession(h) /\ pc'[h] = "err_edit") =>
              (gen'[h] = "y139" /\ error_count' = error_count)
         /\ pc[h] = "gs_wait" => (pc'[h] = "fetch" /\ ai_instance = "live")]_vars

\* C9: error_count is 0 right after a stream is exhausted without a failure,
\* and a failed stream adds exactly 1 to it, so failures on both sides of a
\* successful stream do not add up.
C9_SuccessResetsErrorCount ==
  [][\A h \in Handlers :
       /\ (pc[h] = "fetch" /\ pc'[h] \in {"final_edit", "notice_edit"}) =>
            error_count' = 0
       /\ (pc[h] # "err_edit" /\ pc'[h] = "err_edit" /\ gen'[h] = "y169") =>
            error_count' = error_count + 1]_vars

\* C9 witness: after two failures in a row and a stream that reset the count,
\* a further stream has failed and error_count is 1.
C9_Witness ==
  /\ error_peak = 2
  /\ error_count = 1
  /\ \E h \in Handlers : pc[h] = "err_edit" /\ gen[h] = "y169"

\* C10: when a response without the refusal phrase is finalized,
\* sorry_response_count is 0 right afterwards, whatever it was before.
C10_GoodResponseClearsStreak ==
  [][\A h \in Handlers :
       (pc[h] = "fetch" /\ pc'[h] \in {"final_edit", "notice_edit"}
        /\ last_chunk[h] # "sorry") =>
         (sorry_response_count' = 0 /\ pc'[h] = "final_edit")]_vars

\* C10 witness: a good response has just been finalized while the restart that
\* the third refusal triggered is still waiting for the lock: the count it
\* cleared was 3.
C10_Witness ==
  \E h, g \in Handlers :
    /\ pc[h] = "final_edit" /\ last_chunk[h] = "ok"
    /\ site[g] = "sorry" /\ pc[g] = "ss_wait"
    /\ sorry_response_count = 0

\* C11: a message rejected by admission control, by the running cooldown or by
\* the full window, leaves request_timestamps exactly as it was before the
\* message arrived: nothing appended, nothing removed; the one thing the
\* rejection writes is cooldown_until, and the session is not touched.
C11_RejectionLeavesWindow ==
  [][(msgs' = msgs + 1 /\ verdict' \in {"cooldown", "limit"}) =>
       /\ request_timestamps' = request_timestamps
       /\ cooldown_until' = now' + RATE_LIMIT_COOLDOWN_SECONDS
       /\ UNCHANGED <<sessVars, taskVars>>]_vars

\* C11 witness: a message was rejected at the limit while the oldest of the 8
\* timestamps in the window was exactly 60 s old, the age at which the pruning
\* loop still keeps it.
C11_Witness ==
  /\ verdict = "limit"
  /\ Len(request_timestamps) = REQUEST_LIMIT_PER_MINUTE
  /\ now - request_timestamps[1] = WINDOW_SECONDS

FinalKinds == {"final", "notice"}
CountKind(es, kinds) == Len(SelectSeq(es, LAMBDA e : e.kind \in kinds))
StreamExhausts ==
  /\ relay_pc = "stream" /\ relay_pc' # "stream"
  /\ fetched = Len(backend.chunks) /\ backend.ending = "end"

\* C12: when a request's stream is exhausted without an error chunk, exactly
\* one final edit is emitted (the final content, the no-response placeholder or
\* the restarting notice), whatever the time since the last preview and
\* whatever is on display; no preview edit and no second final edit follows
\* it, and no final edit is emitted for a stream that was not exhausted.
C12_OneFinalEditAfterPreviews ==
  [][/\ StreamExhausts =>
          /\ CountKind(edits, FinalKinds) = 0
          /\ Len(edits') = Len(edits) + 1
          /\ LET e == edits'[Len(edits')]
             IN /\ e.kind \in FinalKinds
                /\ e.content = IF e.kind = "notice" THEN RestartNotice
                                ELSE FinalContent(relay_last_chunk)
     /\ CountKind(edits, FinalKinds) >= 1 =>
          /\ CountKind(edits', FinalKinds) = 1
          /\ CountKind(edits', {"preview"}) = CountKind(edits, {"preview"})
     /\ CountKind(edits', FinalKinds) > CountKind(edits, FinalKinds) =>
          StreamExhausts]_vars

\* C12 witness: the final edit was emitted in the same millisecond as the
\* request's preview edit and with the same content.
C12_Witness ==
  /\ relay_pc = "final_edit"
  /\ Len(edits) = 2
  /\ edits[1].kind = "preview" /\ edits[2].kind = "final"
  /\ edits[2].content = edits[1].content
  /\ edits[2].at = edits[1].at

\* C13: when the backend yields no chunk at all and the stream is exhausted
\* without an error chunk, the one edit of the request is the final edit with
\* the placeholder <No response received>.
C13_NoChunkGivesPlaceholder ==
  [][(StreamExhausts /\ backend.chunks = <<>>) =>
       /\ Len(edits') = 1
       /\ edits'[1].kind = "final"
       /\ edits'[1].content = NoResponseText]_vars

\* C13 witness: a request that got no chunk has shown the placeholder and is
\* done; it found a streak of two refusals and cleared it.
C13_Witness ==
  /\ relay_pc = "done"
  /\ backend.chunks = <<>>
  /\ Len(edits) = 1 /\ edits[1].content = NoResponseText
  /\ health_before[2] = 2 /\ sorry_response_count = 0

\* C17: a chunk gets a preview edit exactly when more than the update
\* interval has passed since the last preview edit of the request (or since
\* streaming began) and its text differs from the text last displayed; a
\* chunk never changes last_edit_time and edited_content, which change only
\* when a preview edit returns, to that edit's time and text. So two
\* consecutive preview edits are more than the interval apart and carry
\* different texts.
C17_PreviewOnlyWhenDue ==
  [][/\ fetched' = fetched + 1 =>
          LET chunk == backend.chunks[fetched']
          IN /\ IF /\ relay_now' - last_edit_time > UPDATE_INTERVAL_MS
                   /\ chunk.message # edited_content
                  THEN edits' = Append(edits, Edit("preview", PreviewContent(chunk),
                                                   chunk.message, relay_now'))
                  ELSE edits' = edits /\ relay_pc' = "stream"
             /\ UNCHANGED <<last_edit_time, edited_content>>
     /\ (relay_pc # "send" /\ <<last_edit_time, edited_content>>'
                                # <<last_edit_time, edited_content>>) =>
          /\ relay_pc = "preview_edit"
          /\ last_edit_time' = edits[Len(edits)].at
          /\ edited_content' = edits[Len(edits)].text
     /\ \A i \in 1..(Len(edits') - 1) :
          (edits'[i].kind = "preview" /\ edits'[i + 1].kind = "preview") =>
            /\ edits'[i + 1].at - edits'[i].at > UPDATE_INTERVAL_MS
            /\ edits'[i + 1].text # edits'[i].text]_vars

\* C17 witness: after two preview edits a chunk with a new text arrived
\* exactly one interval after the second and got no edit.
C17_Witness ==
  /\ relay_pc = "stream"
  /\ fetched = 3
  /\ CountKind(edits, {"preview"}) = 2
  /\ relay_now - last_edit_time = UPDATE_INTERVAL_MS
  /\ relay_last_chunk.message # edited_content

\* C14 as stated: a content longer than the limit is cut to exactly
\* DISCORD_MSG_CHAR_LIMIT characters that end in "..." and begin with the
\* content's first limit-4 characters; any other content is returned as it is.
C14_TruncateToExactlyLimit ==
  text_call = "truncate" =>
    IF Len(text_in) > DISCORD_MSG_CHAR_LIMIT
      THEN /\ Len(text_out) = DISCORD_MSG_CHAR_LIMIT
           /\ SubSeq(text_out, Len(text_out) - 2, Len(text_out)) = Ellipsis
           /\ SubSeq(text_out, 1, DISCORD_MSG_CHAR_LIMIT - 4)
                = SubSeq(text_in, 1, DISCORD_MSG_CHAR_LIMIT - 4)
      ELSE text_out = text_in

\* C14 amended: a content longer than the limit is cut to exactly
\* DISCORD_MSG_CHAR_LIMIT - 1 characters: the content's first limit-4
\* characters followed by "..."; any other content is returned as it is.
C14_TruncateToLimitMinusOne ==
  text_call = "truncate" =>
    IF Len(text_in) > DISCORD_MSG_CHAR_LIMIT
      THEN /\ Len(text_out) = DISCORD_MSG_CHAR_LIMIT - 1
           /\ SubSeq(text_out, Len(text_out) - 2, Len(text_out)) = Ellipsis
           /\ SubSeq(text_out, 1, DISCORD_MSG_CHAR_LIMIT - 4)
                = SubSeq(text_in, 1, DISCORD_MSG_CHAR_LIMIT - 4)
      ELSE text_out = text_in

\* C14 witness: _truncate was called with a content one character longer than
\* the limit, made of two letters in turn.
C14_Witness ==
  /\ text_call = "truncate"
  /\ Len(text_in) = DISCORD_MSG_CHAR_LIMIT + 1
  /\ text_in[1] # text_in[2]
  /\ Len(text_out) < Len(text_in)

\* C20: every content a handler passes to bot_message.edit (preview, final
\* content, API-error message, restarting notice, fallback) has at most
\* DISCORD_MSG_CHAR_LIMIT characters.
C20_EditContentWithinLimit ==
  text_call \in {"preview", "final", "error", "notice", "fallback"} =>
    Len(text_out) <= DISCORD_MSG_CHAR_LIMIT

\* The words of the word list: the lines of the file, lower-cased.
ListedWords ==
  LET lines == SplitLines(censorship_txt, <<>>)
  IN {Lower(lines[i]) : i \in 1..Len(lines)}

\* The maximal alphabetic run of s around position i.
RunFirst(s, i) ==
  CHOOSE a \in 1..i :
    /\ \A j \in a..i : IsAlpha(s[j])
    /\ a = 1 \/ ~IsAlpha(s[a - 1])
RunLast(s, i) ==
  CHOOSE b \in i..Len(s) :
    /\ \A j \in i..b : IsAlpha(s[j])
    /\ b = Len(s) \/ ~IsAlpha(s[b + 1])
RunAt(s, i) == SubSeq(s, RunFirst(s, i), RunLast(s, i))

\* C15: after the censorship step every maximal alphabetic run of the prompt
\* that is longer than 2 and equals a word of the list, case-insensitively, is
\* its first two characters followed by one dash per remaining character, and
\* every other character of the prompt is as it was.
C15_ListedWordsMasked ==
  censor_pc = "done" =>
    /\ Len(prompt) = Len(message_prompt)
    /\ \A i \in 1..Len(message_prompt) :
         prompt[i] =
           IF /\ IsAlpha(message_prompt[i])
              /\ Len(RunAt(message_prompt, i)) > 2
              /\ Lower(RunAt(message_prompt, i)) \in ListedWords
              /\ i - RunFirst(message_prompt, i) >= 2
             THEN "-"
             ELSE message_prompt[i]

\* The counters a request leaves behind when every call of the chat client
\* returns: the outcome of relaying backend b from the counters h.
CountersWhenDelivered(h, b) ==
  LET last == IF b.chunks = <<>> THEN NoChunk ELSE b.chunks[Len(b.chunks)]
  IN IF b.ending = "raise" THEN <<h[1] + 1, h[2]>>
     ELSE IF ~IsRefusal(last) THEN <<0, 0>>
     ELSE IF h[2] + 1 >= AI_MAX_SORRY_RESPONSES /\ b.restart THEN <<0, 0>>
     ELSE <<0, h[2] + 1>>

\* No call of the chat client has raised for the finished request: it ended
\* with an edit other than the fallback.
AllDelivered ==
  relay_pc = "done" /\ edits # <<>> /\ edits[Len(edits)].kind # "fallback"

\* The requests whose chat calls all returned leave CountersWhenDelivered.
DeliveredRunsAgree ==
  AllDelivered =>
    <<error_count, sorry_response_count>> = CountersWhenDelivered(health_before, backend)

\* C16: delivery failures do not affect the health counters: when the handler
\* of a request whose first message was sent has finished, error_count and
\* sorry_response_count are what the same backend behaviour leaves when every
\* edit succeeds, whether or not an edit of this request (preview, final,
\* error message, restarting notice) raised.
C16_DeliveryFailureKeepsCounters ==
  (relay_pc = "done" /\ edits # <<>>) =>
    <<error_count, sorry_response_count>> = CountersWhenDelivered(health_before, backend)

\* The handler's stream generator is inside `async with self.lock` (148-172).
StreamHoldsLock(h) == pc[h] = "fetch" \/ gen[h] \in {"y162", "y169", "a172"}

\* C18: no task waits for the session lock while itself holding it: a stream
\* that is iterated to exhaustion, the one whose failure brings error_count
\* to AI_MAX_ERRORS included, never queues for the lock it holds.
C18_NoWaitForOwnLock ==
  \A h \in Handlers :
    StreamHoldsLock(h) => \A i \in 1..Len(waiters) : waiters[i] # h

\* C19: with the clock of the message events non-decreasing, at most
\* REQUEST_LIMIT_PER_MINUTE messages are admitted within any 60 seconds: the
\* window never holds more than 8 timestamps, the messages admitted in the 60
\* seconds up to now are at most 8, and their timestamps are the newest
\* entries of the window.
C19_AtMostLimitPerWindow ==
  /\ Len(request_timestamps) <= REQUEST_LIMIT_PER_MINUTE
  /\ Len(recent_admits) <= REQUEST_LIMIT_PER_MINUTE
  /\ Len(recent_admits) <= Len(request_timestamps)
  /\ recent_admits =
       SubSeq(request_timestamps,
              Len(request_timestamps) - Len(recent_admits) + 1,
              Len(request_timestamps))

\* C19 witness: the eighth message of a 60-second span has just been admitted,
\* exactly 60 s after the first.
C19_Witness ==
  /\ verdict = "admitted"
  /\ Len(recent_admits) = REQUEST_LIMIT_PER_MINUTE
  /\ now - recent_admits[1] = WINDOW_SECONDS
  /\ recent_admits[REQUEST_LIMIT_PER_MINUTE] = now
====
